---------------------------- MODULE Spec2Model ----------------------------
(***************************************************************************)
(* A model of chezmoi's logging decorators:                                *)
(*   - chezmoilog's helpers (FirstFewBytes, Output, InfoOrError,           *)
(*     AppendExitErrorAttrs),                                              *)
(*   - DebugSystem and DebugPersistentState, which forward every call to   *)
(*     an inner System / PersistentState and log it,                       *)
(*   - Interpreter.ExecCommand, sequentially and as two concurrent calls   *)
(*     over the memory of the Args slice.                                  *)
(*                                                                         *)
(* Three specifications share the module:                                  *)
(*   Spec      the decorators, one call at a time on one instance of each; *)
(*   SpecLog   the pure helpers applied to inputs drawn from bounded sets; *)
(*   SpecExec  two goroutines calling ExecCommand on one Interpreter.      *)
(***************************************************************************)
EXTENDS Integers, Sequences, FiniteSets, TLC

VARIABLES
    dsLogger,   \* DebugSystem.logger: NilLogger or a logger
    psLogger,   \* DebugPersistentState.logger
    pc,         \* "idle", or "iter" while the inner ForEach is iterating
    call,       \* the decorator call in progress or last completed
    inner,      \* the inner operations invoked during that call, in order
    innerRet,   \* what the inner operation returned
    trace,      \* log records and caller-callback invocations of that call, in order
    ret,        \* what the decorator returned to its caller (or that it panicked)
    fe,         \* the inner store's iteration state during ForEach
    arg,        \* SpecLog: the helper applied last and its inputs
    res,        \* SpecLog: its result
    interp,     \* SpecExec: the shared *Interpreter
    mem,        \* SpecExec: the backing array of interp.Args
    tpc,        \* SpecExec: each goroutine's position in ExecCommand
    tname,      \* SpecExec: each goroutine's script name
    tslice,     \* SpecExec: the slice append returned to each goroutine
    tread,      \* SpecExec: the words of the last element read so far
    tcmd        \* SpecExec: the *exec.Cmd each goroutine got

decVars  == <<dsLogger, psLogger, pc, call, inner, innerRet, trace, ret, fe>>
logVars  == <<arg, res>>
execVars == <<interp, mem, tpc, tname, tslice, tread, tcmd>>
vars     == <<decVars, logVars, execVars>>

---------------------------------------------------------------------------
(* Bounds of the model. *)

\* Payloads have 0..MaxLen bytes; MaxLen is above the truncation threshold.
MaxLen == 66
\* The Args backing array has up to MaxSpare unused elements.
MaxSpare == 1
\* The inner store visits up to MaxEntries pairs.
MaxEntries == 3
\* Interpreter.Args has up to MaxArgs elements.
MaxArgs == 2

---------------------------------------------------------------------------
(* Values. *)

NilLogger == "nil"
Loggers   == {NilLogger, "logger"}

\* error values.  kind "nil" is the nil error, "plain" any error that is no
\* *exec.ExitError, "exit" an *exec.ExitError; wrapped says the error sits
\* inside a wrapping error (errors.As unwraps).  ps is its *os.ProcessState.
NoPS   == [present |-> FALSE, exited |-> FALSE, code |-> 0, pid |-> 0,
           utime |-> 0, stime |-> 0]
NilErr == [kind |-> "nil", wrapped |-> FALSE, ps |-> NoPS]
ErrIO  == [kind |-> "plain", wrapped |-> FALSE, ps |-> NoPS]
ErrCb  == [kind |-> "plain", wrapped |-> TRUE, ps |-> NoPS]

\* os.ProcessState: a process that exited has an exit code and ExitCode()
\* of one that did not exit is -1.
ProcessStates ==
    { p \in [present : {TRUE}, exited : BOOLEAN, code : {-1, 1, 2}, pid : {7},
             utime : {0, 3}, stime : {0, 4}] : p.exited <=> (p.code # -1) }

ExitErrs == { [kind |-> "exit", wrapped |-> w, ps |-> p] :
                w \in BOOLEAN, p \in ProcessStates \cup {NoPS} }

PlainErrs == {NilErr, ErrIO}
AllErrs   == PlainErrs \cup {ErrCb} \cup ExitErrs

\* A few exit errors for the decorators' process operations.
SomeExitErrs ==
    { e \in ExitErrs : ~e.wrapped /\ e.ps.utime = 0 /\ e.ps.code # 1 }

\* A payload of n bytes whose bytes differ by position.
MkData(n) == [i \in 1..n |-> (i * 7) % 256]
DataSet   == { MkData(n) : n \in 0..MaxLen }

\* An attribute of a log record.
Attr(k, v) == [key |-> k, value |-> v]

HasAttr(attrs, k) == \E i \in 1..Len(attrs) : attrs[i].key = k
AttrVal(attrs, k) == attrs[CHOOSE i \in 1..Len(attrs) : attrs[i].key = k].value
CountAttr(attrs, k) == Cardinality({ i \in 1..Len(attrs) : attrs[i].key = k })

---------------------------------------------------------------------------
(* chezmoilog *)

few == 64
Dot == 46

\* FirstFewBytes with the threshold off by one.
FirstFewBytes_OffByOne(data) ==
    IF Len(data) >= few
    THEN SubSeq(data, 1, few) \o <<Dot, Dot, Dot>>
    ELSE data

\* FirstFewBytes returns the first few bytes of data.
FirstFewBytes(data) ==
    IF Len(data) > few
    THEN SubSeq(data, 1, few) \o <<Dot, Dot, Dot>>
    ELSE data

\* Output returns the first few bytes of output if err is nil, otherwise the
\* full output.
Output(data, err) ==
    IF err # NilErr THEN data ELSE FirstFewBytes(data)

\* errors.As(err, &execExitError): err, or an error it wraps, is an
\* *exec.ExitError.
IsExitError(err) == err.kind = "exit"

\* AppendExitErrorAttrs with the test of Exited() inverted.
AppendExitErrorAttrs_Inverted(attrs, err) ==
    IF ~IsExitError(err)
    THEN Append(attrs, Attr("err", err))
    ELSE IF err.ps.present
         THEN LET a1 == IF ~err.ps.exited
                        THEN Append(attrs, Attr("exitCode", err.ps.code))
                        ELSE Append(attrs, Attr("pid", err.ps.pid))
                  a2 == IF err.ps.utime # 0
                        THEN Append(a1, Attr("userTime", err.ps.utime))
                        ELSE a1
              IN  IF err.ps.stime # 0
                  THEN Append(a2, Attr("systemTime", err.ps.stime))
                  ELSE a2
         ELSE attrs

AppendExitErrorAttrs(attrs, err) ==
    IF ~IsExitError(err)
    THEN Append(attrs, Attr("err", err))
    ELSE IF err.ps.present
         THEN LET a1 == IF err.ps.exited
                        THEN Append(attrs, Attr("exitCode", err.ps.code))
                        ELSE Append(attrs, Attr("pid", err.ps.pid))
                  a2 == IF err.ps.utime # 0
                        THEN Append(a1, Attr("userTime", err.ps.utime))
                        ELSE a1
              IN  IF err.ps.stime # 0
                  THEN Append(a2, Attr("systemTime", err.ps.stime))
                  ELSE a2
         ELSE attrs

\* Stringer(key, s) is slog.String(key, s.String()); paths are modelled by
\* their string form.
Stringer(k, s) == Attr(k, s)

\* A log record handed to a logger's handler.  sink is "logger" for the
\* decorator's own logger and "default" for slog's process-wide logger.
LogEvent(sink, level, msg, attrs) ==
    [type |-> "log", sink |-> sink, level |-> level, msg |-> msg, attrs |-> attrs,
     key |-> "", err |-> NilErr]

\* The caller's callback was invoked on key k and returned err.
CbEvent(k, err) ==
    [type |-> "cb", sink |-> "", level |-> "", msg |-> "", attrs |-> <<>>,
     key |-> k, err |-> err]

\* InfoOrError with the error branch lost: every record at info level.
InfoOrError_AlwaysInfo(logger, msg, err, args) ==
    IF logger = NilLogger THEN <<>>
    ELSE <<LogEvent("logger", "INFO", msg, args)>>

\* InfoOrError logs at error level, with err first, if err is non-nil and at
\* info level otherwise; on a nil logger it does nothing.  The records emitted.
InfoOrError(logger, msg, err, args) ==
    IF logger = NilLogger THEN <<>>
    ELSE IF err # NilErr
         THEN <<LogEvent("logger", "ERROR", msg, <<Attr("err", err)>> \o args)>>
         ELSE <<LogEvent("logger", "INFO", msg, args)>>

IsLog(e) == e.type = "log"
IsCb(e)  == e.type = "cb"
Logs(t)  == SelectSeq(t, IsLog)
Cbs(t)   == SelectSeq(t, IsCb)

---------------------------------------------------------------------------
(* Inputs of the decorators' operations. *)

Paths     == {"/a", "/b"}
Times     == {10, 20}
Modes     == {420, 493}
Durations == {1, 2}
Matches   == {<<>>, <<"/a", "/b">>}
FileInfos == {"nilinfo", "info"}
Links     == {"", "target"}
NoVal     == "none"

\* Payloads around the truncation threshold.
SampleData == { MkData(n) : n \in {0, few - 1, few, few + 1, MaxLen} }

\* *Interpreter values: the nil pointer, or a struct with Command and Args.
NilInterp == [nil |-> TRUE, Command |-> "", Args |-> <<>>]
ArgSeq    == <<"-x", "-e", "-u", "-v">>
Interps   == {NilInterp}
             \cup { [nil |-> FALSE, Command |-> c, Args |-> SubSeq(ArgSeq, 1, n)] :
                      c \in {"", "sh"}, n \in 0..MaxArgs }

Cmds == { [Path |-> "ls", Args |-> <<"ls", "-l">>] }

ProcErrs == PlainErrs \cup SomeExitErrs

\* A decorator call or an inner invocation: the operation and its arguments.
Op(name, args) == [op |-> name, args |-> args]

\* What an operation returns: a value (NoVal for an operation that returns
\* only an error) and an error.
Result(v, e) == [value |-> v, err |-> e]

\* No inner ForEach is iterating.
NoIteration ==
    [bucket |-> "", store |-> <<>>, pos |-> 0, failOn |-> {},
     policy |-> "halt", stopped |-> FALSE, err |-> NilErr]

\* The decorator's call c invoked the inner operation in, which returned
\* ir; evs were emitted and rt was returned to the caller.
Complete(c, in, ir, evs, rt) ==
    /\ pc' = "idle"
    /\ call' = c
    /\ inner' = <<in>>
    /\ innerRet' = ir
    /\ trace' = evs
    /\ ret' = [status |-> "returned", value |-> rt.value, err |-> rt.err]
    /\ fe' = NoIteration
    /\ UNCHANGED <<dsLogger, psLogger, logVars, execVars>>

\* The decorator's call c invoked the inner operation in, which returned
\* ir, and then panicked: nothing was returned to the caller.
Panicked(c, in, ir, zero) ==
    /\ pc' = "idle"
    /\ call' = c
    /\ inner' = <<in>>
    /\ innerRet' = ir
    /\ trace' = <<>>
    /\ ret' = [status |-> "panic", value |-> zero, err |-> NilErr]
    /\ fe' = NoIteration
    /\ UNCHANGED <<dsLogger, psLogger, logVars, execVars>>

---------------------------------------------------------------------------
(* DebugSystem.  Each action is one call: the forwarded inner call, whose   *)
(* result the inner implementation chooses, the log record and the return.  *)

Chtimes ==
    /\ pc = "idle"
    /\ \E name \in Paths, atime \in Times, mtime \in Times, err \in PlainErrs :
        Complete(Op("Chtimes", <<name, atime, mtime>>),
                 Op("Chtimes", <<name, atime, mtime>>),
                 Result(NoVal, err),
                 InfoOrError(dsLogger, "Chtimes", err,
                     <<Stringer("name", name), Attr("atime", atime), Attr("mtime", mtime)>>),
                 Result(NoVal, err))

Chmod ==
    /\ pc = "idle"
    /\ \E name \in Paths, mode \in Modes, err \in PlainErrs :
        Complete(Op("Chmod", <<name, mode>>),
                 Op("Chmod", <<name, mode>>),
                 Result(NoVal, err),
                 InfoOrError(dsLogger, "Chmod", err,
                     <<Stringer("name", name), Attr("mode", mode)>>),
                 Result(NoVal, err))

Glob ==
    /\ pc = "idle"
    /\ \E name \in Paths, matches \in Matches, err \in PlainErrs :
        Complete(Op("Glob", <<name>>),
                 Op("Glob", <<name>>),
                 Result(matches, err),
                 InfoOrError(dsLogger, "Glob", err,
                     <<Attr("name", name), Attr("matches", matches)>>),
                 Result(matches, err))

Link ==
    /\ pc = "idle"
    /\ \E oldpath \in Paths, newpath \in Paths, err \in PlainErrs :
        Complete(Op("Link", <<oldpath, newpath>>),
                 Op("Link", <<oldpath, newpath>>),
                 Result(NoVal, err),
                 InfoOrError(dsLogger, "Link", err,
                     <<Stringer("oldpath", oldpath), Stringer("newpath", newpath)>>),
                 Result(NoVal, err))

Lstat ==
    /\ pc = "idle"
    /\ \E name \in Paths, fileInfo \in FileInfos, err \in PlainErrs :
        Complete(Op("Lstat", <<name>>),
                 Op("Lstat", <<name>>),
                 Result(fileInfo, err),
                 InfoOrError(dsLogger, "Lstat", err, <<Stringer("name", name)>>),
                 Result(fileInfo, err))

Mkdir ==
    /\ pc = "idle"
    /\ \E name \in Paths, perm \in Modes, err \in PlainErrs :
        Complete(Op("Mkdir", <<name, perm>>),
                 Op("Mkdir", <<name, perm>>),
                 Result(NoVal, err),
                 InfoOrError(dsLogger, "Mkdir", err,
                     <<Stringer("name", name), Attr("perm", perm)>>),
                 Result(NoVal, err))

RawPath ==
    /\ pc = "idle"
    /\ \E path \in Paths, raw \in Paths, err \in PlainErrs :
        Complete(Op("RawPath", <<path>>),
                 Op("RawPath", <<path>>),
                 Result(raw, err),
                 <<>>,
                 Result(raw, err))

ReadDir ==
    /\ pc = "idle"
    /\ \E name \in Paths, dirEntries \in Matches, err \in PlainErrs :
        Complete(Op("ReadDir", <<name>>),
                 Op("ReadDir", <<name>>),
                 Result(dirEntries, err),
                 InfoOrError(dsLogger, "ReadDir", err, <<Stringer("name", name)>>),
                 Result(dirEntries, err))

\* ReadFile calls s.logger.Error and s.logger.Info itself: on a nil
\* *slog.Logger these dereference the nil pointer and panic.
ReadFile ==
    /\ pc = "idle"
    /\ \E name \in Paths, data \in SampleData, err \in PlainErrs :
        IF dsLogger = NilLogger
        THEN Panicked(Op("ReadFile", <<name>>), Op("ReadFile", <<name>>),
                      Result(data, err), <<>>)
        ELSE Complete(Op("ReadFile", <<name>>),
                      Op("ReadFile", <<name>>),
                      Result(data, err),
                      IF err # NilErr
                      THEN <<LogEvent("logger", "ERROR", "ReadFile", <<Attr("err", err)>>)>>
                      ELSE <<LogEvent("logger", "INFO", "ReadFile",
                                <<Attr("data", Output(data, err)),
                                  Attr("size", Len(data))>>)>>,
                      Result(data, err))

Readlink ==
    /\ pc = "idle"
    /\ \E name \in Paths, linkname \in Links, err \in PlainErrs :
        IF dsLogger = NilLogger
        THEN Panicked(Op("Readlink", <<name>>), Op("Readlink", <<name>>),
                      Result(linkname, err), "")
        ELSE Complete(Op("Readlink", <<name>>),
                      Op("Readlink", <<name>>),
                      Result(linkname, err),
                      IF err # NilErr
                      THEN <<LogEvent("logger", "ERROR", "ReadLink", <<Attr("err", err)>>)>>
                      ELSE <<LogEvent("logger", "INFO", "ReadLink",
                                <<Attr("linkname", linkname)>>)>>,
                      Result(linkname, err))

Remove ==
    /\ pc = "idle"
    /\ \E name \in Paths, err \in PlainErrs :
        Complete(Op("Remove", <<name>>),
                 Op("Remove", <<name>>),
                 Result(NoVal, err),
                 InfoOrError(dsLogger, "Remove", err, <<Stringer("name", name)>>),
                 Result(NoVal, err))

RemoveAll ==
    /\ pc = "idle"
    /\ \E name \in Paths, err \in PlainErrs :
        Complete(Op("RemoveAll", <<name>>),
                 Op("RemoveAll", <<name>>),
                 Result(NoVal, err),
                 InfoOrError(dsLogger, "RemoveAll", err, <<Stringer("name", name)>>),
                 Result(NoVal, err))

Rename ==
    /\ pc = "idle"
    /\ \E oldpath \in Paths, newpath \in Paths, err \in PlainErrs :
        Complete(Op("Rename", <<oldpath, newpath>>),
                 Op("Rename", <<oldpath, newpath>>),
                 Result(NoVal, err),
                 InfoOrError(dsLogger, "RemoveAll", err,
                     <<Stringer("oldpath", oldpath), Stringer("newpath", newpath)>>),
                 Result(NoVal, err))

\* RunCmd and RunScript log through slog.Error and slog.Info, the
\* process-wide default logger, not through s.logger.
RunCmd ==
    /\ pc = "idle"
    /\ \E cmd \in Cmds, duration \in Durations, err \in ProcErrs :
        Complete(Op("RunCmd", <<cmd>>),
                 Op("RunCmd", <<cmd>>),
                 Result(NoVal, err),
                 <<LogEvent("default", IF err # NilErr THEN "ERROR" ELSE "INFO", "RunCmd",
                       <<Attr("cmd", cmd), Attr("duration", duration)>>
                       \o AppendExitErrorAttrs(<<>>, err))>>,
                 Result(NoVal, err))

RunScript ==
    /\ pc = "idle"
    /\ \E scriptname \in {"s.sh"}, dir \in Paths, data \in SampleData,
          interpreter \in {NilInterp, [nil |-> FALSE, Command |-> "sh", Args |-> <<"-x">>]},
          err \in ProcErrs :
        LET options == [Interpreter |-> interpreter, Condition |-> "always"]
        IN  Complete(Op("RunScript", <<scriptname, dir, data, options>>),
                     Op("RunScript", <<scriptname, dir, data, options>>),
                     Result(NoVal, err),
                     <<LogEvent("default", IF err # NilErr THEN "ERROR" ELSE "INFO",
                           "RunScript",
                           <<Stringer("scriptname", scriptname),
                             Stringer("dir", dir),
                             Attr("data", Output(data, err)),
                             Attr("interpreter", options.Interpreter),
                             Attr("condition", options.Condition)>>
                           \o AppendExitErrorAttrs(<<>>, err))>>,
                     Result(NoVal, err))

Stat ==
    /\ pc = "idle"
    /\ \E name \in Paths, fileInfo \in FileInfos, err \in PlainErrs :
        Complete(Op("Stat", <<name>>),
                 Op("Stat", <<name>>),
                 Result(fileInfo, err),
                 InfoOrError(dsLogger, "Stat", err, <<Stringer("name", name)>>),
                 Result(fileInfo, err))

UnderlyingFS ==
    /\ pc = "idle"
    /\ \E fs \in {"osfs", "memfs"} :
        Complete(Op("UnderlyingFS", <<>>),
                 Op("UnderlyingFS", <<>>),
                 Result(fs, NilErr),
                 <<>>,
                 Result(fs, NilErr))

WriteFile ==
    /\ pc = "idle"
    /\ \E name \in Paths, data \in SampleData, perm \in Modes, err \in PlainErrs :
        Complete(Op("WriteFile", <<name, data, perm>>),
                 Op("WriteFile", <<name, data, perm>>),
                 Result(NoVal, err),
                 InfoOrError(dsLogger, "WriteFile", err,
                     <<Stringer("name", name),
                       Attr("data", FirstFewBytes(data)),
                       Attr("perm", perm),
                       Attr("size", Len(data))>>),
                 Result(NoVal, err))

WriteSymlink ==
    /\ pc = "idle"
    /\ \E oldname \in Links, newname \in Paths, err \in PlainErrs :
        Complete(Op("WriteSymlink", <<oldname, newname>>),
                 Op("WriteSymlink", <<oldname, newname>>),
                 Result(NoVal, err),
                 InfoOrError(dsLogger, "WriteSymlink", err,
                     <<Attr("oldname", oldname), Stringer("newname", newname)>>),
                 Result(NoVal, err))

DebugSystemOps ==
    {"Chtimes", "Chmod", "Glob", "Link", "Lstat", "Mkdir", "RawPath", "ReadDir",
     "ReadFile", "Readlink", "Remove", "RemoveAll", "Rename", "RunCmd", "RunScript",
     "Stat", "UnderlyingFS", "WriteFile", "WriteSymlink"}

---------------------------------------------------------------------------
(* DebugPersistentState. *)

Buckets == {"bucket"}
KeySeq  == <<"A", "B", "C", "D", "E">>
Values  == {"", "v"}
\* The value the inner store holds under key k.
ValueOf(k) == "v"

\* The inner stores: each visits its keys in order.
Stores == { SubSeq(KeySeq, 1, n) : n \in 0..MaxEntries }

\* How the inner ForEach behaves: "halt" stops at the first failure of the
\* callback it was given and returns that failure, "continue" visits every
\* pair and returns nil, "fail" visits nothing and returns an error of its own.
Policies == {"halt", "continue", "fail"}

Close ==
    /\ pc = "idle"
    /\ \E err \in PlainErrs :
        Complete(Op("Close", <<>>),
                 Op("Close", <<>>),
                 Result(NoVal, err),
                 InfoOrError(psLogger, "Close", err, <<>>),
                 Result(NoVal, err))

CopyTo ==
    /\ pc = "idle"
    /\ \E p \in {"p1", "p2"}, err \in PlainErrs :
        Complete(Op("CopyTo", <<p>>),
                 Op("CopyTo", <<p>>),
                 Result(NoVal, err),
                 InfoOrError(psLogger, "CopyTo", err, <<>>),
                 Result(NoVal, err))

Data ==
    /\ pc = "idle"
    /\ \E data \in {"nildata", "data"}, err \in PlainErrs :
        Complete(Op("Data", <<>>),
                 Op("Data", <<>>),
                 Result(data, err),
                 InfoOrError(psLogger, "Data", err, <<Attr("data", data)>>),
                 Result(data, err))

Delete ==
    /\ pc = "idle"
    /\ \E bucket \in Buckets, key \in {"A", "B"}, err \in PlainErrs :
        Complete(Op("Delete", <<bucket, key>>),
                 Op("Delete", <<bucket, key>>),
                 Result(NoVal, err),
                 InfoOrError(psLogger, "Delete", err,
                     <<Attr("bucket", bucket), Attr("key", key)>>),
                 Result(NoVal, err))

DeleteBucket ==
    /\ pc = "idle"
    /\ \E bucket \in Buckets, err \in PlainErrs :
        Complete(Op("DeleteBucket", <<bucket>>),
                 Op("DeleteBucket", <<bucket>>),
                 Result(NoVal, err),
                 InfoOrError(psLogger, "DeleteBucket", err, <<Attr("bucket", bucket)>>),
                 Result(NoVal, err))

Get ==
    /\ pc = "idle"
    /\ \E bucket \in Buckets, key \in {"A", "B"}, value \in Values, err \in PlainErrs :
        Complete(Op("Get", <<bucket, key>>),
                 Op("Get", <<bucket, key>>),
                 Result(value, err),
                 InfoOrError(psLogger, "Get", err,
                     <<Attr("bucket", bucket), Attr("key", key), Attr("value", value)>>),
                 Result(value, err))

Set ==
    /\ pc = "idle"
    /\ \E bucket \in Buckets, key \in {"A", "B"}, value \in Values, err \in PlainErrs :
        Complete(Op("Set", <<bucket, key, value>>),
                 Op("Set", <<bucket, key, value>>),
                 Result(NoVal, err),
                 InfoOrError(psLogger, "Set", err,
                     <<Attr("bucket", bucket), Attr("key", key), Attr("value", value)>>),
                 Result(NoVal, err))

\* ForEachCallback that logs fn's failure but returns nil to the inner store.
ForEachCallback_Swallow(logger, bucket, k, v, fnErr) ==
    [events |-> <<CbEvent(k, fnErr)>>
                \o InfoOrError(logger, "ForEach", fnErr,
                       <<Attr("bucket", bucket), Attr("key", k), Attr("value", v)>>),
     err    |-> NilErr]

\* ForEachCallback that logs the pair before it calls fn.
ForEachCallback_LogFirst(logger, bucket, k, v, fnErr) ==
    [events |-> InfoOrError(logger, "ForEach", NilErr,
                       <<Attr("bucket", bucket), Attr("key", k), Attr("value", v)>>)
                \o <<CbEvent(k, fnErr)>>,
     err    |-> fnErr]

\* The callback ForEach hands to the inner store: it calls fn(k, v), whose
\* result is fnErr, logs the pair and returns fn's result.  The events it
\* produces, in order, and what it returns.
ForEachCallback(logger, bucket, k, v, fnErr) ==
    [events |-> <<CbEvent(k, fnErr)>>
                \o InfoOrError(logger, "ForEach", fnErr,
                       <<Attr("bucket", bucket), Attr("key", k), Attr("value", v)>>),
     err    |-> fnErr]

\* The summary record ForEach logs once the inner ForEach has returned err.
ForEachSummary(logger, bucket, err) ==
    InfoOrError(logger, "ForEach", err, <<Attr("bucket", bucket)>>)

\* ForEach is called with a bucket and a callback fn, which fails on the
\* keys of failOn; it calls the inner ForEach, which starts to iterate.
ForEachCall ==
    /\ pc = "idle"
    /\ \E bucket \in Buckets, store \in Stores, policy \in Policies :
       \E failOn \in SUBSET { store[i] : i \in 1..Len(store) } :
        /\ pc' = "iter"
        /\ call' = Op("ForEach", <<bucket, failOn>>)
        /\ inner' = <<Op("ForEach", <<bucket, failOn>>)>>
        /\ innerRet' = Result(NoVal, NilErr)
        /\ trace' = <<>>
        /\ ret' = [status |-> "pending", value |-> NoVal, err |-> NilErr]
        /\ fe' = [bucket |-> bucket, store |-> store, pos |-> 0, failOn |-> failOn,
                  policy |-> policy, stopped |-> FALSE, err |-> NilErr]
    /\ UNCHANGED <<dsLogger, psLogger, logVars, execVars>>

\* The inner store visits its next pair: it calls the callback it was given.
ForEachVisit ==
    /\ pc = "iter"
    /\ fe.policy # "fail"
    /\ ~fe.stopped
    /\ fe.pos < Len(fe.store)
    /\ LET k  == fe.store[fe.pos + 1]
           r  == ForEachCallback(psLogger, fe.bucket, k, ValueOf(k),
                                 IF k \in fe.failOn THEN ErrCb ELSE NilErr)
           st == r.err # NilErr /\ fe.policy = "halt"
       IN  /\ trace' = trace \o r.events
           /\ fe' = [fe EXCEPT !.pos = fe.pos + 1,
                               !.stopped = st,
                               !.err = IF st THEN r.err ELSE fe.err]
    /\ UNCHANGED <<dsLogger, psLogger, pc, call, inner, innerRet, ret, logVars, execVars>>

\* The inner ForEach returns; ForEach logs the summary record and returns
\* the inner ForEach's error.
ForEachReturn ==
    /\ pc = "iter"
    /\ fe.policy = "fail" \/ fe.stopped \/ fe.pos = Len(fe.store)
    /\ LET err == IF fe.policy = "fail" THEN ErrIO ELSE fe.err
       IN  /\ innerRet' = Result(NoVal, err)
           /\ trace' = trace \o ForEachSummary(psLogger, fe.bucket, err)
           /\ ret' = [status |-> "returned", value |-> NoVal, err |-> err]
    /\ pc' = "idle"
    /\ UNCHANGED <<dsLogger, psLogger, call, inner, fe, logVars, execVars>>

DebugPersistentStateOps ==
    {"Close", "CopyTo", "Data", "Delete", "DeleteBucket", "ForEach", "Get", "Set"}

---------------------------------------------------------------------------
(* The specification of the decorators. *)

NoLogState ==
    /\ arg = [fn |-> "off", data |-> <<>>, err |-> NilErr, interp |-> NilInterp,
              name |-> ""]
    /\ res = [bytes |-> <<>>, attrs |-> <<>>, cmd |-> [Path |-> "", Args |-> <<>>]]

NoExecState ==
    /\ interp = [nil |-> TRUE, Command |-> "", len |-> 0, cap |-> 0]
    /\ mem = <<>>
    /\ tpc = <<"off", "off">>
    /\ tname = <<"", "">>
    /\ tslice = <<[shared |-> FALSE, elems |-> <<>>], [shared |-> FALSE, elems |-> <<>>]>>
    /\ tread = <<"", "">>
    /\ tcmd = <<[Path |-> "", Args |-> <<>>], [Path |-> "", Args |-> <<>>]>>

NoDecState ==
    /\ dsLogger = NilLogger
    /\ psLogger = NilLogger
    /\ pc = "off"
    /\ call = Op("none", <<>>)
    /\ inner = <<>>
    /\ innerRet = Result(NoVal, NilErr)
    /\ trace = <<>>
    /\ ret = [status |-> "none", value |-> NoVal, err |-> NilErr]
    /\ fe = NoIteration

\* NewDebugSystem and NewDebugPersistentState store the logger they are given.
Init ==
    /\ dsLogger \in Loggers
    /\ psLogger \in Loggers
    /\ pc = "idle"
    /\ call = Op("none", <<>>)
    /\ inner = <<>>
    /\ innerRet = Result(NoVal, NilErr)
    /\ trace = <<>>
    /\ ret = [status |-> "none", value |-> NoVal, err |-> NilErr]
    /\ fe = NoIteration
    /\ NoLogState
    /\ NoExecState

Next ==
    \/ Chtimes \/ Chmod \/ Glob \/ Link \/ Lstat \/ Mkdir \/ RawPath \/ ReadDir
    \/ ReadFile \/ Readlink \/ Remove \/ RemoveAll \/ Rename \/ RunCmd \/ RunScript
    \/ Stat \/ UnderlyingFS \/ WriteFile \/ WriteSymlink
    \/ Close \/ CopyTo \/ Data \/ Delete \/ DeleteBucket \/ Get \/ Set
    \/ ForEachCall \/ ForEachVisit \/ ForEachReturn

Spec == Init /\ [][Next]_vars

---------------------------------------------------------------------------
(* Properties of the decorators. *)

\* A decorator call has completed.
Finished == pc = "idle" /\ call.op # "none"

\* The payload of a first-few-bytes sample: p when it has at most few
\* bytes, else its first few bytes and three dots.
IsSampleOf(s, p) ==
    IF Len(p) <= few
    THEN s = p
    ELSE /\ Len(s) = few + 3
         /\ \A i \in 1..few : s[i] = p[i]
         /\ \A i \in (few + 1)..(few + 3) : s[i] = Dot

\* The keys of the per-pair records of a trace, in order.
PairRecords(t) == SelectSeq(Logs(t), LAMBDA e : HasAttr(e.attrs, "key"))
PairKeys(t)    == [i \in 1..Len(PairRecords(t)) |-> AttrVal(PairRecords(t)[i].attrs, "key")]
CbKeys(t)      == [i \in 1..Len(Cbs(t)) |-> Cbs(t)[i].key]

\* C1: every decorator operation calls the inner operation of the same name
\* exactly once with the same arguments and returns the value and the error
\* the inner operation returned.
C1_PassThrough ==
    Finished =>
        /\ Len(inner) = 1
        /\ inner[1].op = call.op
        /\ inner[1].args = call.args
        /\ ret.status = "returned"
        /\ ret.value = innerRet.value
        /\ ret.err = innerRet.err

\* The inner store of the ForEach scenario: it visits A, B, C in that order
\* and halts on the first failure; the callback succeeds on A and fails on B.
ABCScenario ==
    /\ call.op = "ForEach"
    /\ Len(fe.store) >= 3
    /\ fe.policy = "halt"
    /\ "A" \notin fe.failOn
    /\ "B" \in fe.failOn

\* C2 as stated: in the scenario the callback is invoked for A and then B
\* only, one per-pair record is logged for A and one for B, none for C,
\* and ForEach returns the callback's error.
C2_HaltsOnB ==
    Finished /\ ABCScenario =>
        /\ CbKeys(trace) = <<"A", "B">>
        /\ PairKeys(trace) = <<"A", "B">>
        /\ ret.status = "returned"
        /\ ret.err = ErrCb

\* C2 amended: the same, the per-pair records being logged by a decorator
\* with a non-nil logger; one with a nil logger logs nothing.
C2_HaltsOnB_Logger ==
    Finished /\ ABCScenario =>
        /\ CbKeys(trace) = <<"A", "B">>
        /\ PairKeys(trace) = IF psLogger = NilLogger THEN <<>> ELSE <<"A", "B">>
        /\ ret.status = "returned"
        /\ ret.err = ErrCb

C2_Witness ==
    /\ Finished /\ ABCScenario
    /\ psLogger # NilLogger
    /\ fe.pos = 2
    /\ Len(PairRecords(trace)) = 2
    /\ ret.err = ErrCb

Payload ==
    CASE call.op = "ReadFile"  -> innerRet.value
      [] call.op = "WriteFile" -> call.args[2]
      [] call.op = "RunScript" -> call.args[3]

\* C5: ReadFile, WriteFile and RunScript log the first few bytes of the
\* payload only when the inner call succeeded; when it failed, the data
\* attribute, if logged, is the whole payload.
C5_SampleOnSuccessOnly ==
    /\ Finished
    /\ call.op \in {"ReadFile", "WriteFile", "RunScript"}
    /\ Len(Logs(trace)) = 1
    /\ HasAttr(Logs(trace)[1].attrs, "data")
    => LET logged == AttrVal(Logs(trace)[1].attrs, "data")
       IN  IF innerRet.err = NilErr
           THEN IsSampleOf(logged, Payload)
           ELSE logged = Payload

\* C8: the message of every record names the operation that was called.
\* A message names an operation when it is the operation's name, whatever
\* the case of its letters.
NamesOp(msg, op) == msg = op \/ (op = "Readlink" /\ msg = "ReadLink")

C8_MessageNamesOperation ==
    Finished => \A i \in 1..Len(Logs(trace)) : NamesOp(Logs(trace)[i].msg, call.op)

\* C9: with a non-nil logger, ForEach over an inner store that has visited n
\* pairs has emitted, for each pair in order, one record right after the
\* callback returned, at error level iff the callback failed; once ForEach
\* has returned there is one more record, the summary, which is the last:
\* n + 1 records.
C9_ForEachRecords ==
    call.op = "ForEach" /\ psLogger # NilLogger =>
        LET n == fe.pos
        IN  /\ \A i \in 1..n :
                /\ Len(trace) >= 2 * i
                /\ IsCb(trace[2 * i - 1])
                /\ trace[2 * i - 1].key = fe.store[i]
                /\ IsLog(trace[2 * i])
                /\ HasAttr(trace[2 * i].attrs, "key")
                /\ AttrVal(trace[2 * i].attrs, "key") = fe.store[i]
                /\ trace[2 * i].level =
                       IF trace[2 * i - 1].err # NilErr THEN "ERROR" ELSE "INFO"
            /\ IF pc = "idle"
               THEN /\ Len(trace) = 2 * n + 1
                    /\ Len(Logs(trace)) = n + 1
                    /\ IsLog(trace[2 * n + 1])
                    /\ ~HasAttr(trace[2 * n + 1].attrs, "key")
                    /\ trace[2 * n + 1].level =
                           IF innerRet.err # NilErr THEN "ERROR" ELSE "INFO"
               ELSE Len(trace) = 2 * n

C9_Witness ==
    /\ Finished
    /\ call.op = "ForEach"
    /\ psLogger # NilLogger
    /\ fe.pos = 3
    /\ Len(Logs(trace)) = 4
    /\ trace[4].level = "ERROR"
    /\ trace[6].level = "INFO"

---------------------------------------------------------------------------
(* Interpreter *)

\* exec.Command(name, arg...): the command's Args are name and then arg.
ExecCmd(name, args) == [Path |-> name, Args |-> <<name>> \o args]

\* None returns if i represents no interpreter.
None(i) == i.nil \/ i.Command = ""

\* ExecCommand with the script name put before the configured arguments.
ExecCommand_NameFirst(i, name) ==
    IF None(i)
    THEN ExecCmd(name, <<>>)
    ELSE ExecCmd(i.Command, <<name>> \o i.Args)

\* ExecCommand returns the *exec.Cmd to interpret name.
ExecCommand(i, name) ==
    IF None(i)
    THEN ExecCmd(name, <<>>)
    ELSE ExecCmd(i.Command, Append(i.Args, name))

---------------------------------------------------------------------------
(* The specification of the helpers: each action applies one of them to     *)
(* inputs of its choice and records the result.                             *)

ScriptNames == {"deploy.sh", "run.sh"}
NoCmd       == [Path |-> "", Args |-> <<>>]

Applied(fn, data, err, i, name, bytes, attrs, cmd) ==
    /\ arg' = [fn |-> fn, data |-> data, err |-> err, interp |-> i, name |-> name]
    /\ res' = [bytes |-> bytes, attrs |-> attrs, cmd |-> cmd]
    /\ UNCHANGED <<decVars, execVars>>

CallFirstFewBytes ==
    /\ arg.fn # "off"
    /\ \E data \in DataSet :
           Applied("FirstFewBytes", data, NilErr, NilInterp, "",
                   FirstFewBytes(data), <<>>, NoCmd)

CallOutput ==
    /\ arg.fn # "off"
    /\ \E data \in DataSet, err \in PlainErrs \cup SomeExitErrs :
           Applied("Output", data, err, NilInterp, "",
                   Output(data, err), <<>>, NoCmd)

CallAppendExitErrorAttrs ==
    /\ arg.fn # "off"
    /\ \E err \in AllErrs :
           Applied("AppendExitErrorAttrs", <<>>, err, NilInterp, "",
                   <<>>, AppendExitErrorAttrs(<<>>, err), NoCmd)

CallExecCommand ==
    /\ arg.fn # "off"
    /\ \E i \in Interps, name \in ScriptNames :
           Applied("ExecCommand", <<>>, NilErr, i, name,
                   <<>>, <<>>, ExecCommand(i, name))

InitLog ==
    /\ arg = [fn |-> "none", data |-> <<>>, err |-> NilErr, interp |-> NilInterp,
              name |-> ""]
    /\ res = [bytes |-> <<>>, attrs |-> <<>>, cmd |-> NoCmd]
    /\ NoDecState
    /\ NoExecState

NextLog ==
    \/ CallFirstFewBytes
    \/ CallOutput
    \/ CallAppendExitErrorAttrs
    \/ CallExecCommand

SpecLog == InitLog /\ [][NextLog]_vars

\* C4: Output(data, err) is data when data has at most 64 bytes; the first
\* 64 bytes of data and the marker "...", 67 bytes, when data is longer and
\* err is nil; data, whatever its length, when err is non-nil.
C4_Output ==
    arg.fn = "Output" =>
        /\ Len(arg.data) <= few => res.bytes = arg.data
        /\ Len(arg.data) > few /\ arg.err = NilErr =>
              /\ Len(res.bytes) = few + 3
              /\ SubSeq(res.bytes, 1, few) = SubSeq(arg.data, 1, few)
              /\ SubSeq(res.bytes, few + 1, few + 3) = <<Dot, Dot, Dot>>
        /\ arg.err # NilErr => res.bytes = arg.data

C4_Witness ==
    /\ arg.fn = "Output"
    /\ Len(arg.data) = few + 2
    /\ arg.err = NilErr
    /\ Len(res.bytes) = few + 3
    /\ res.bytes[few + 3] = Dot

\* C6: AppendExitErrorAttrs(nil, err) is the one attribute "err" when err is
\* no process-exit error; for a process-exit error it holds exitCode = c and
\* no pid when the process exited with code c, a pid and no exitCode when
\* the process did not exit, and userTime (systemTime) exactly when the user
\* (system) CPU time is nonzero.
C6_ExitErrorAttrs ==
    arg.fn = "AppendExitErrorAttrs" =>
        IF arg.err.kind # "exit"
        THEN /\ Len(res.attrs) = 1
             /\ res.attrs[1].key = "err"
             /\ res.attrs[1].value = arg.err
        ELSE /\ arg.err.ps.present /\ arg.err.ps.exited =>
                  /\ CountAttr(res.attrs, "exitCode") = 1
                  /\ AttrVal(res.attrs, "exitCode") = arg.err.ps.code
                  /\ ~HasAttr(res.attrs, "pid")
             /\ arg.err.ps.present /\ ~arg.err.ps.exited =>
                  /\ CountAttr(res.attrs, "pid") = 1
                  /\ AttrVal(res.attrs, "pid") = arg.err.ps.pid
                  /\ ~HasAttr(res.attrs, "exitCode")
             /\ HasAttr(res.attrs, "userTime") <=> arg.err.ps.utime # 0
             /\ HasAttr(res.attrs, "systemTime") <=> arg.err.ps.stime # 0
             /\ ~HasAttr(res.attrs, "err")

C6_Witness ==
    /\ arg.fn = "AppendExitErrorAttrs"
    /\ arg.err.kind = "exit"
    /\ arg.err.wrapped
    /\ arg.err.ps.present
    /\ arg.err.ps.code = 2
    /\ arg.err.ps.utime = 0
    /\ arg.err.ps.stime # 0
    /\ Len(res.attrs) = 2
    /\ res.attrs[1].key = "exitCode"
    /\ res.attrs[2].key = "systemTime"

\* C7: ExecCommand(name) on a nil interpreter or one with an empty command
\* runs name with no further argument; otherwise it runs the configured
\* command with the configured arguments, in order, and then name.
C7_ExecCommand ==
    arg.fn = "ExecCommand" =>
        IF arg.interp.nil \/ arg.interp.Command = ""
        THEN /\ res.cmd.Path = arg.name
             /\ res.cmd.Args = <<arg.name>>
        ELSE /\ res.cmd.Path = arg.interp.Command
             /\ res.cmd.Args = <<arg.interp.Command>> \o arg.interp.Args \o <<arg.name>>

C7_Witness ==
    /\ arg.fn = "ExecCommand"
    /\ arg.interp.Command = "sh"
    /\ arg.interp.Args = <<"-x">>
    /\ arg.name = "deploy.sh"
    /\ res.cmd = [Path |-> "sh", Args |-> <<"sh", "-x", "deploy.sh">>]

---------------------------------------------------------------------------
(* Two goroutines call ExecCommand on one *Interpreter.  i.Args is a slice  *)
(* of len elements over a backing array of cap elements, mem.  A string is  *)
(* two words, its data pointer and its length, written and read one word at *)
(* a time; a word holds the name of the string it belongs to.               *)

Threads == {1, 2}

Str(s)  == [ptr |-> s, len |-> s]
\* The string a header denotes: torn when its words are of two strings.
StrOf(h) == IF h.ptr = h.len THEN h.ptr ELSE "<torn>"

NoSlice == [shared |-> FALSE, elems |-> <<>>]

\* The elements of i.Args.
ArgsOf(i, m) == [k \in 1..i.len |-> StrOf(m[k])]

InitExec ==
    /\ \E c \in {"", "sh"}, n \in 0..MaxArgs, spare \in 0..MaxSpare, isNil \in BOOLEAN :
        /\ isNil => c = "" /\ n = 0 /\ spare = 0
        /\ interp = [nil |-> isNil, Command |-> c, len |-> n, cap |-> n + spare]
        /\ mem = [k \in 1..(n + spare) |-> IF k <= n THEN Str(ArgSeq[k]) ELSE Str("")]
    /\ tpc = [t \in Threads |-> "start"]
    /\ tname \in {<<"a.sh", "bb.sh">>, <<"bb.sh", "a.sh">>}
    /\ tslice = [t \in Threads |-> NoSlice]
    /\ tread = [t \in Threads |-> ""]
    /\ tcmd = [t \in Threads |-> NoCmd]
    /\ NoDecState
    /\ NoLogState

\* if i.None() { return exec.Command(name) }
CheckNone(t) ==
    /\ tpc[t] = "start"
    /\ IF interp.nil \/ interp.Command = ""
       THEN /\ tcmd' = [tcmd EXCEPT ![t] = ExecCmd(tname[t], <<>>)]
            /\ tpc' = [tpc EXCEPT ![t] = "done"]
       ELSE /\ tpc' = [tpc EXCEPT ![t] = "append"]
            /\ UNCHANGED tcmd
    /\ UNCHANGED <<interp, mem, tname, tslice, tread, decVars, logVars>>

\* append(i.Args, name) with len < cap stores name into the backing array
\* of i.Args, right after its elements: first the pointer word.
AppendStorePtr(t) ==
    /\ tpc[t] = "append"
    /\ interp.len < interp.cap
    /\ mem' = [mem EXCEPT ![interp.len + 1].ptr = tname[t]]
    /\ tpc' = [tpc EXCEPT ![t] = "appendLen"]
    /\ UNCHANGED <<interp, tname, tslice, tread, tcmd, decVars, logVars>>

\* Then the length word; append returns a slice over the same array.
AppendStoreLen(t) ==
    /\ tpc[t] = "appendLen"
    /\ mem' = [mem EXCEPT ![interp.len + 1].len = tname[t]]
    /\ tslice' = [tslice EXCEPT ![t] = [shared |-> TRUE, elems |-> <<>>]]
    /\ tpc' = [tpc EXCEPT ![t] = "command"]
    /\ UNCHANGED <<interp, tname, tread, tcmd, decVars, logVars>>

\* append(i.Args, name) with len = cap copies the elements into a new array
\* and stores name there; append returns a slice over the new array.
AppendGrow(t) ==
    /\ tpc[t] = "append"
    /\ interp.len = interp.cap
    /\ tslice' = [tslice EXCEPT ![t] =
                    [shared |-> FALSE, elems |-> Append(ArgsOf(interp, mem), tname[t])]]
    /\ tpc' = [tpc EXCEPT ![t] = "command"]
    /\ UNCHANGED <<interp, mem, tname, tread, tcmd, decVars, logVars>>

\* exec.Command copies its arguments.  Of a slice over the shared array it
\* reads the last element from that array: first the pointer word.
CommandLoadPtr(t) ==
    /\ tpc[t] = "command"
    /\ tslice[t].shared
    /\ tread' = [tread EXCEPT ![t] = mem[interp.len + 1].ptr]
    /\ tpc' = [tpc EXCEPT ![t] = "commandLen"]
    /\ UNCHANGED <<interp, mem, tname, tslice, tcmd, decVars, logVars>>

\* Then the length word.
CommandLoadLen(t) ==
    /\ tpc[t] = "commandLen"
    /\ LET last == StrOf([ptr |-> tread[t], len |-> mem[interp.len + 1].len])
       IN  tcmd' = [tcmd EXCEPT ![t] =
                      ExecCmd(interp.Command, Append(ArgsOf(interp, mem), last))]
    /\ tpc' = [tpc EXCEPT ![t] = "done"]
    /\ UNCHANGED <<interp, mem, tname, tslice, tread, decVars, logVars>>

\* Of a slice over an array of its own it reads what append stored.
CommandPrivate(t) ==
    /\ tpc[t] = "command"
    /\ ~tslice[t].shared
    /\ tcmd' = [tcmd EXCEPT ![t] = ExecCmd(interp.Command, tslice[t].elems)]
    /\ tpc' = [tpc EXCEPT ![t] = "done"]
    /\ UNCHANGED <<interp, mem, tname, tslice, tread, decVars, logVars>>

NextExec ==
    \E t \in Threads :
        \/ CheckNone(t)
        \/ AppendStorePtr(t)
        \/ AppendStoreLen(t)
        \/ AppendGrow(t)
        \/ CommandLoadPtr(t)
        \/ CommandLoadLen(t)
        \/ CommandPrivate(t)

SpecExec == InitExec /\ [][NextExec]_vars

\* C10: of two ExecCommand calls on one non-None Interpreter with different
\* script names, under any interleaving, the final argument of each
\* resulting command is its own script name, and the Interpreter's Command
\* and Args are what they were.
C10_OwnScriptName ==
    ~(interp.nil \/ interp.Command = "") =>
        /\ \A t \in Threads :
              tpc[t] = "done" =>
                  tcmd[t].Args[Len(tcmd[t].Args)] = tname[t]
        /\ interp.Command = "sh"
        /\ ArgsOf(interp, mem) = SubSeq(ArgSeq, 1, interp.len)

=============================================================================
